---- MODULE Spec2Model ----
(***************************************************************************)
(* Model of the gorm-backed MessageStore (gormStoreFactory, gromStore) and *)
(* of the session registry (registry.go) of longbridge/quickfix.           *)
(*                                                                         *)
(* The durable backend is the pair of tables `sessions` and `messages`;    *)
(* every gorm call of a handler is a call site that may fail, chosen by    *)
(* the handler's fault input.  A store handler runs as one step (a store   *)
(* has one owner, who calls it sequentially); the registry functions run   *)
(* as one step per statement so that their locking is what serialises them.*)
(***************************************************************************)
EXTENDS Integers, Sequences, FiniteSets, TLC

\* ------------------------------------------------------------------ bounds
\* Largest sequence number the counters reach (Go int is capped here).
MaxSeq == 2
\* Largest msgseqnum used as a key of the messages table.
MaxMsgSeq == 2

\* ------------------------------------------------------------------ domains
Sessions == {"A", "B"}
\* SessionIDs present in settings.SessionSettings().
Configured == {"A"}
\* Values of the DynamicSessions global setting ("absent": not set,
\* "bad": set to a string BoolSetting cannot parse).
DynValues == {"absent", "Y", "N", "bad"}
Handles == {"h1", "h2"}
Payloads == {"x", "y"}
\* Values time.Now() returns.
Times == {"t0", "t1"}
NoRec == [absent |-> TRUE]
NoMsg == "nomsg"
MsgSeqs == 1..MaxMsgSeq
\* Arguments of GetMessages: the keys and one value below them.
RangeArgs == 0..MaxMsgSeq

VARIABLES
    dynamicSessions,  \* the DynamicSessions global setting of f.settings
    tables,           \* tables that exist in the database
    dbSessions,       \* table sessions: SessionID -> record or NoRec
    dbMessages,       \* table messages: SessionID -> msgseqnum -> message
    store,            \* the gromStore objects: sessionID, cache and db handle
    nIncr,            \* per session: successful IncrNextSenderMsgSeqNum calls since
                      \* its row was inserted, -1 once any other call wrote or
                      \* failed to write the sender counter
    ret,              \* the last store call: what it was and what it returned
    panicked,         \* a handler dereferenced a nil pointer: the process is gone
    sessions,         \* the registry map: SessionID -> session or NoH
    sessionsLock,     \* the RWMutex: its writer and its readers
    pc,               \* per thread: the statement of a registry function it is at
    call,             \* per thread: the registry call it makes or made last,
                      \* with its locals and its result
    toSend            \* per session object: its outbound queue

storeVars == <<dynamicSessions, tables, dbSessions, dbMessages, store, nIncr, ret, panicked>>

regVars == <<sessions, sessionsLock, pc, call, toSend>>

vars == <<storeVars, regVars>>

\* ------------------------------------------------------------------ memoryStore
\* The cache of a gromStore: creationTime, senderMsgSeqNum, targetMsgSeqNum.
NoStore == [made |-> FALSE, dbNil |-> FALSE, sessionID |-> "A",
            creationTime |-> "t0", senderMsgSeqNum |-> 0, targetMsgSeqNum |-> 0]

\* memoryStore.Reset: both sequence numbers 1, creation time now.
cacheReset(s, t) ==
    [s EXCEPT !.creationTime = t, !.senderMsgSeqNum = 1, !.targetMsgSeqNum = 1]

cacheSetNextSenderMsgSeqNum(s, n) == [s EXCEPT !.senderMsgSeqNum = n]

cacheSetNextTargetMsgSeqNum(s, n) == [s EXCEPT !.targetMsgSeqNum = n]

cacheIncrNextSenderMsgSeqNum(s) == [s EXCEPT !.senderMsgSeqNum = @ + 1]

cacheIncrNextTargetMsgSeqNum(s) == [s EXCEPT !.targetMsgSeqNum = @ + 1]

\* ------------------------------------------------------------------ tables
\* A row of table sessions (the SessionID columns are the key).
Rec(ct, in, out) == [creation_time |-> ct, incoming_seqnum |-> in, outgoing_seqnum |-> out]

\* gorm Update/Updates with a Where clause: rewrites the matching row; with
\* no matching row it changes nothing and reports no error.
UpdateRow(tab, sid, col, val) ==
    IF tab[sid] = NoRec THEN tab
    ELSE [tab EXCEPT ![sid] = [@ EXCEPT ![col] = val]]

\* gorm Updates(map) of the three value columns of the matching row.
UpdatesRow(tab, sid, row) ==
    IF tab[sid] = NoRec THEN tab ELSE [tab EXCEPT ![sid] = row]

NoMessages == [q \in MsgSeqs |-> NoMsg]

Nil == "nil"

NoRet == [op |-> "none", h |-> "h1", err |-> Nil, msgs |-> <<>>]

Ret(op, h, err) == [op |-> op, h |-> h, err |-> err, msgs |-> <<>>]

Threads == {"t1", "t2"}
NoH == "noh"

\* Headers of the messages given to Send: the five routing fields, "" for a
\* field the header lacks.
Headers == [BeginString : {"FIX", ""}, SenderCompID : {"S", ""}, TargetCompID : {"T", ""},
            SenderSubID : {"ss", ""}, TargetSubID : {"ts", ""}]

NoHdr == [BeginString |-> "", SenderCompID |-> "", TargetCompID |-> "",
          SenderSubID |-> "", TargetSubID |-> ""]

\* The calls that run SendToTarget: Send and SendToTarget itself.
SendOps == {"send", "sendToTarget"}

NoCall == [op |-> "none", sid |-> "A", h |-> NoH, err |-> Nil, found |-> FALSE, msg |-> NoHdr]

\* ------------------------------------------------------------------ Init
Init ==
    /\ dynamicSessions \in DynValues
    /\ tables = {}
    /\ dbSessions = [sid \in Sessions |-> NoRec]
    /\ dbMessages = [sid \in Sessions |-> NoMessages]
    /\ store = [h \in Handles |-> NoStore]
    /\ nIncr = [sid \in Sessions |-> -1]
    /\ ret = NoRet
    /\ panicked = FALSE
    /\ sessions = [sid \in Sessions |-> NoH]
    /\ sessionsLock = [w |-> "free", r |-> {}]
    /\ pc = [t \in Threads |-> "idle"]
    /\ call = [t \in Threads |-> NoCall]
    /\ toSend = [h \in Handles |-> <<>>]

\* ------------------------------------------------------------------ Create
DbErr == "db error"

\* gromStore.initTables: create each missing table; the first CreateTable that
\* fails ends it.  Result: the tables that exist afterwards and the error.
initTables(tabs, fault) ==
    IF "sessions" \notin tabs /\ fault = "createSessions"
    THEN [tables |-> tabs, err |-> DbErr]
    ELSE LET t1 == tabs \cup {"sessions"}
         IN  IF "messages" \notin t1 /\ fault = "createMessages"
             THEN [tables |-> t1, err |-> DbErr]
             ELSE [tables |-> t1 \cup {"messages"}, err |-> Nil]

\* populateCache that finds the row and loads nothing from it.
populateCacheNoLoad(s, tab, fault) ==
    IF fault = "find" THEN [s |-> s, tab |-> tab, err |-> DbErr]
    ELSE IF tab[s.sessionID] # NoRec THEN [s |-> s, tab |-> tab, err |-> Nil]
    ELSE IF fault = "insert" THEN [s |-> s, tab |-> tab, err |-> DbErr]
    ELSE [s |-> s,
          tab |-> [tab EXCEPT ![s.sessionID] =
                      Rec(s.creationTime, s.targetMsgSeqNum, s.senderMsgSeqNum)],
          err |-> Nil]

\* populateCache that inserts its row without looking for one.
populateCacheBlindInsert(s, tab, fault) ==
    IF fault = "find" THEN [s |-> s, tab |-> tab, err |-> DbErr]
    ELSE IF fault = "insert" THEN [s |-> s, tab |-> tab, err |-> DbErr]
    ELSE [s |-> s,
          tab |-> [tab EXCEPT ![s.sessionID] =
                      Rec(s.creationTime, s.targetMsgSeqNum, s.senderMsgSeqNum)],
          err |-> Nil]

\* gromStore.populateCache on store object s over table sessions tab.
\* First() finds the row: load it into the cache.  ErrRecordNotFound: INSERT
\* a row holding the cache's values.  Any other error is returned.
populateCache(s, tab, fault) ==
    LET sid == s.sessionID
        row == tab[sid]
    IN  IF fault = "find" THEN [s |-> s, tab |-> tab, err |-> DbErr]
        ELSE IF row # NoRec
        THEN [s |-> cacheSetNextSenderMsgSeqNum(
                        cacheSetNextTargetMsgSeqNum(
                            [s EXCEPT !.creationTime = row.creation_time],
                            row.incoming_seqnum),
                        row.outgoing_seqnum),
              tab |-> tab, err |-> Nil]
        ELSE IF fault = "insert" THEN [s |-> s, tab |-> tab, err |-> DbErr]
        ELSE [s |-> s,
              tab |-> [tab EXCEPT ![sid] =
                          Rec(s.creationTime, s.targetMsgSeqNum, s.senderMsgSeqNum)],
              err |-> Nil]

\* Admission that does not look at the value of the DynamicSessions setting.
admitConfigured(sid) ==
    IF dynamicSessions = "bad" THEN "bad setting"
    ELSE IF sid \notin Configured THEN "unknown session"
    ELSE Nil

\* The admission test of Create: the error it returns before building a store.
admit(sid) ==
    IF dynamicSessions = "bad" THEN "bad setting"
    ELSE IF sid \notin Configured /\ dynamicSessions # "Y" THEN "unknown session"
    ELSE Nil

CreateFaults == {"none", "createSessions", "createMessages", "find", "insert"}

\* gormStoreFactory.Create(sessionID) returning the new store object h.
Create(h, sid, t, fault) ==
    /\ ~panicked
    /\ ~store[h].made
    /\ LET a   == admit(sid)
           it  == initTables(tables, fault)
           s0  == cacheReset([NoStore EXCEPT !.sessionID = sid], t)
           pop == populateCache(s0, dbSessions, fault)
           err == IF a # Nil THEN a ELSE IF it.err # Nil THEN it.err ELSE pop.err
       IN  /\ tables' = IF a # Nil THEN tables ELSE it.tables
           /\ dbSessions' = IF a # Nil \/ it.err # Nil THEN dbSessions ELSE pop.tab
           /\ store' = IF err # Nil THEN store
                       ELSE [store EXCEPT ![h] = [pop.s EXCEPT !.made = TRUE]]
           /\ nIncr' = IF err = Nil /\ dbSessions[sid] = NoRec
                       THEN [nIncr EXCEPT ![sid] = 0] ELSE nIncr
           /\ ret' = Ret("Create", h, err)
    /\ UNCHANGED <<dynamicSessions, dbMessages, panicked>>

\* ------------------------------------------------------------------ sequence numbers
\* A handler that uses store.db runs on a store whose db handle is set.
Usable(h) == ~panicked /\ store[h].made /\ ~store[h].dbNil

\* nIncr once store h has made a call on its sender counter.
Touch(h, v) == [nIncr EXCEPT ![store[h].sessionID] = v]

\* SetNextSenderMsgSeqNum that sets the cache before it looks at the error.
setNextSenderCacheFirst(s, tab, next, fault) ==
    IF fault = "update"
    THEN [s |-> cacheSetNextSenderMsgSeqNum(s, next), tab |-> tab, err |-> DbErr]
    ELSE [s |-> cacheSetNextSenderMsgSeqNum(s, next),
          tab |-> UpdateRow(tab, s.sessionID, "outgoing_seqnum", next),
          err |-> Nil]

\* gromStore.SetNextSenderMsgSeqNum(next) on store object s: Update the row,
\* return its error; only then set the cache.
setNextSenderMsgSeqNum(s, tab, next, fault) ==
    IF fault = "update" THEN [s |-> s, tab |-> tab, err |-> DbErr]
    ELSE [s |-> cacheSetNextSenderMsgSeqNum(s, next),
          tab |-> UpdateRow(tab, s.sessionID, "outgoing_seqnum", next),
          err |-> Nil]

\* gromStore.SetNextTargetMsgSeqNum(next) on store object s.
setNextTargetMsgSeqNum(s, tab, next, fault) ==
    IF fault = "update" THEN [s |-> s, tab |-> tab, err |-> DbErr]
    ELSE [s |-> cacheSetNextTargetMsgSeqNum(s, next),
          tab |-> UpdateRow(tab, s.sessionID, "incoming_seqnum", next),
          err |-> Nil]

\* gromStore.IncrNextSenderMsgSeqNum: increment the cache, then Set the
\* cache's value.
incrNextSenderMsgSeqNum(s, tab, fault) ==
    LET s1 == cacheIncrNextSenderMsgSeqNum(s)
    IN  setNextSenderMsgSeqNum(s1, tab, s1.senderMsgSeqNum, fault)

\* gromStore.IncrNextTargetMsgSeqNum.
incrNextTargetMsgSeqNum(s, tab, fault) ==
    LET s1 == cacheIncrNextTargetMsgSeqNum(s)
    IN  setNextTargetMsgSeqNum(s1, tab, s1.targetMsgSeqNum, fault)

UpdateFaults == {"none", "update"}

SetNextSenderMsgSeqNum(h, next, fault) ==
    /\ Usable(h)
    /\ LET r == setNextSenderMsgSeqNum(store[h], dbSessions, next, fault)
       IN  /\ store' = [store EXCEPT ![h] = r.s]
           /\ dbSessions' = r.tab
           /\ nIncr' = Touch(h, -1)
           /\ ret' = Ret("SetNextSenderMsgSeqNum", h, r.err)
    /\ UNCHANGED <<dynamicSessions, tables, dbMessages, panicked>>

SetNextTargetMsgSeqNum(h, next, fault) ==
    /\ Usable(h)
    /\ LET r == setNextTargetMsgSeqNum(store[h], dbSessions, next, fault)
       IN  /\ store' = [store EXCEPT ![h] = r.s]
           /\ dbSessions' = r.tab
           /\ ret' = Ret("SetNextTargetMsgSeqNum", h, r.err)
    /\ UNCHANGED <<dynamicSessions, tables, dbMessages, nIncr, panicked>>

IncrNextSenderMsgSeqNum(h, fault) ==
    /\ Usable(h)
    /\ store[h].senderMsgSeqNum < MaxSeq
    /\ LET r == incrNextSenderMsgSeqNum(store[h], dbSessions, fault)
       IN  /\ store' = [store EXCEPT ![h] = r.s]
           /\ dbSessions' = r.tab
           /\ nIncr' = LET n == nIncr[store[h].sessionID]
                       IN  Touch(h, IF r.err = Nil /\ n >= 0 THEN n + 1 ELSE -1)
           /\ ret' = Ret("IncrNextSenderMsgSeqNum", h, r.err)
    /\ UNCHANGED <<dynamicSessions, tables, dbMessages, panicked>>

IncrNextTargetMsgSeqNum(h, fault) ==
    /\ Usable(h)
    /\ store[h].targetMsgSeqNum < MaxSeq
    /\ LET r == incrNextTargetMsgSeqNum(store[h], dbSessions, fault)
       IN  /\ store' = [store EXCEPT ![h] = r.s]
           /\ dbSessions' = r.tab
           /\ ret' = Ret("IncrNextTargetMsgSeqNum", h, r.err)
    /\ UNCHANGED <<dynamicSessions, tables, dbMessages, nIncr, panicked>>

\* ------------------------------------------------------------------ Reset, Refresh
ResetFaults == {"none", "delete", "update"}

\* Reset that leaves the session's messages in the table.
resetKeepsLog(s, tab, msgs, t, fault) ==
    IF fault = "delete" THEN [s |-> s, tab |-> tab, msgs |-> msgs, err |-> DbErr]
    ELSE LET s1 == cacheReset(s, t)
         IN  IF fault = "update" THEN [s |-> s1, tab |-> tab, msgs |-> msgs, err |-> DbErr]
             ELSE [s |-> s1,
                   tab |-> UpdatesRow(tab, s.sessionID,
                               Rec(s1.creationTime, s1.targetMsgSeqNum, s1.senderMsgSeqNum)),
                   msgs |-> msgs, err |-> Nil]

\* gromStore.Reset on store object s: DELETE the session's messages, reset the
\* cache, then write the cache's three values to the row.
reset(s, tab, msgs, t, fault) ==
    IF fault = "delete" THEN [s |-> s, tab |-> tab, msgs |-> msgs, err |-> DbErr]
    ELSE LET s1 == cacheReset(s, t)
             m1 == [msgs EXCEPT ![s.sessionID] = NoMessages]
         IN  IF fault = "update" THEN [s |-> s1, tab |-> tab, msgs |-> m1, err |-> DbErr]
             ELSE [s |-> s1,
                   tab |-> UpdatesRow(tab, s.sessionID,
                               Rec(s1.creationTime, s1.targetMsgSeqNum, s1.senderMsgSeqNum)),
                   msgs |-> m1, err |-> Nil]

Reset(h, t, fault) ==
    /\ Usable(h)
    /\ LET r == reset(store[h], dbSessions, dbMessages, t, fault)
       IN  /\ store' = [store EXCEPT ![h] = r.s]
           /\ dbSessions' = r.tab
           /\ dbMessages' = r.msgs
           /\ nIncr' = Touch(h, -1)
           /\ ret' = Ret("Reset", h, r.err)
    /\ UNCHANGED <<dynamicSessions, tables, panicked>>

RefreshFaults == {"none", "find", "insert"}

\* Refresh that reloads without resetting the cache.
refreshKeepsCache(s, tab, t, fault) == populateCache(s, tab, fault)

\* gromStore.Refresh on store object s: reset the cache, then populateCache.
refresh(s, tab, t, fault) == populateCache(cacheReset(s, t), tab, fault)

Refresh(h, t, fault) ==
    /\ Usable(h)
    /\ LET r == refresh(store[h], dbSessions, t, fault)
       IN  /\ store' = [store EXCEPT ![h] = r.s]
           /\ dbSessions' = r.tab
           /\ nIncr' = IF r.err = Nil THEN nIncr ELSE Touch(h, -1)
           /\ ret' = Ret("Refresh", h, r.err)
    /\ UNCHANGED <<dynamicSessions, tables, dbMessages, panicked>>

\* ------------------------------------------------------------------ messages
\* Table messages is keyed by the SessionID columns and msgseqnum: an INSERT
\* of a key that is present violates the key.
KeyPresent(msgs, sid, seqNum) == msgs[sid][seqNum] # NoMsg

\* The INSERT of SaveMessage: the rows afterwards and the error.
insertMessage(msgs, sid, seqNum, msg, insFault) ==
    IF insFault \/ KeyPresent(msgs, sid, seqNum)
    THEN [msgs |-> msgs, err |-> DbErr]
    ELSE [msgs |-> [msgs EXCEPT ![sid][seqNum] = msg], err |-> Nil]

\* The Count of SaveMessage over the rows of (SessionID, seqNum); its own
\* error is dropped and leaves counter at 0.
countMessages(msgs, sid, seqNum, cntFault) ==
    IF cntFault THEN 0
    ELSE Cardinality({q \in {seqNum} : KeyPresent(msgs, sid, q)})

\* Values of the count of fix_test rows with open = 1 (0 also when the count
\* itself fails).
TestCounts == {0, 2}

\* SaveMessage that takes a failed insert for a resend unless it counts
\* more than one row.
saveMessageAtMostOne(s, msgs, seqNum, msg, testCnt, insFault, cntFault) ==
    IF testCnt > 1 THEN [msgs |-> msgs, err |-> "test error"]
    ELSE LET ins == insertMessage(msgs, s.sessionID, seqNum, msg, insFault)
         IN  IF ins.err # Nil
                /\ countMessages(ins.msgs, s.sessionID, seqNum, cntFault) <= 1
             THEN [msgs |-> ins.msgs, err |-> Nil]
             ELSE ins

\* gromStore.SaveMessage(seqNum, msg) on store object s.
saveMessage(s, msgs, seqNum, msg, testCnt, insFault, cntFault) ==
    IF testCnt > 1 THEN [msgs |-> msgs, err |-> "test error"]
    ELSE LET ins == insertMessage(msgs, s.sessionID, seqNum, msg, insFault)
         IN  IF ins.err # Nil
                /\ countMessages(ins.msgs, s.sessionID, seqNum, cntFault) = 1
             THEN [msgs |-> ins.msgs, err |-> Nil]
             ELSE ins

SaveMessage(h, seqNum, msg, testCnt, insFault, cntFault) ==
    /\ Usable(h)
    /\ LET r == saveMessage(store[h], dbMessages, seqNum, msg, testCnt, insFault, cntFault)
       IN  /\ dbMessages' = r.msgs
           /\ ret' = Ret("SaveMessage", h, r.err)
    /\ UNCHANGED <<dynamicSessions, tables, dbSessions, store, nIncr, panicked>>

\* The rows of keys ks in ascending msgseqnum order (ORDER BY msgseqnum).
RECURSIVE orderByMsgSeqNum(_, _)
orderByMsgSeqNum(row, ks) ==
    IF ks = {} THEN <<>>
    ELSE LET k == CHOOSE q \in ks : \A p \in ks : q <= p
         IN  <<row[k]>> \o orderByMsgSeqNum(row, ks \ {k})

\* GetMessages whose range leaves out endSeqNum.
getMessagesOpenEnd(s, msgs, beginSeqNum, endSeqNum, fault) ==
    IF fault THEN [msgs |-> <<>>, err |-> DbErr]
    ELSE [msgs |-> orderByMsgSeqNum(msgs[s.sessionID],
                      {q \in MsgSeqs : /\ KeyPresent(msgs, s.sessionID, q)
                                       /\ q >= beginSeqNum
                                       /\ q < endSeqNum}),
          err |-> Nil]

\* gromStore.GetMessages(beginSeqNum, endSeqNum) on store object s.
getMessages(s, msgs, beginSeqNum, endSeqNum, fault) ==
    IF fault THEN [msgs |-> <<>>, err |-> DbErr]
    ELSE [msgs |-> orderByMsgSeqNum(msgs[s.sessionID],
                      {q \in MsgSeqs : /\ KeyPresent(msgs, s.sessionID, q)
                                       /\ q >= beginSeqNum
                                       /\ q <= endSeqNum}),
          err |-> Nil]

GetMessages(h, beginSeqNum, endSeqNum, fault) ==
    /\ Usable(h)
    /\ LET r == getMessages(store[h], dbMessages, beginSeqNum, endSeqNum, fault)
       IN  ret' = [Ret("GetMessages", h, r.err) EXCEPT !.msgs = r.msgs]
    /\ UNCHANGED <<dynamicSessions, tables, dbSessions, dbMessages, store, nIncr, panicked>>

\* ------------------------------------------------------------------ Close
\* store.db.DB(): "ok" returns the *sql.DB and no error; "err" returns a nil
\* *sql.DB and an error, when the handle's pool is no *sql.DB.
DBOutcomes == {"ok", "err"}

\* gromStore.Close on store object s.  With an error from DB() it calls
\* Close on the nil *sql.DB, which panics; without one it closes nothing
\* and drops the store's handle.
close(s, outcome) ==
    IF s.dbNil THEN [s |-> s, panic |-> FALSE]
    ELSE IF outcome = "err" THEN [s |-> s, panic |-> TRUE]
    ELSE [s |-> [s EXCEPT !.dbNil = TRUE], panic |-> FALSE]

\* Close that takes the database handle away from every store of the factory.
CloseShared(h, outcome) ==
    /\ ~panicked
    /\ store[h].made
    /\ store' = [g \in Handles |-> [store[g] EXCEPT !.dbNil = TRUE]]
    /\ ret' = Ret("Close", h, Nil)
    /\ UNCHANGED <<dynamicSessions, tables, dbSessions, dbMessages, nIncr, panicked>>

Close(h, outcome) ==
    /\ ~panicked
    /\ store[h].made
    /\ LET r == close(store[h], outcome)
       IN  /\ store' = [store EXCEPT ![h] = r.s]
           /\ panicked' = r.panic
           /\ ret' = Ret("Close", h, IF r.panic THEN "panic" ELSE Nil)
    /\ UNCHANGED <<dynamicSessions, tables, dbSessions, dbMessages, nIncr>>

\* Any handler that reaches store.db.Table/Exec/Raw on a closed store
\* dereferences the nil *gorm.DB.
UseAfterClose(h) ==
    /\ ~panicked
    /\ store[h].made
    /\ store[h].dbNil
    /\ panicked' = TRUE
    /\ ret' = Ret("UseAfterClose", h, "panic")
    /\ UNCHANGED <<dynamicSessions, tables, dbSessions, dbMessages, store, nIncr>>

\* The owner lets go of store object h (the session ends, or the process
\* restarts); a later Create builds a new object over the same tables.
Drop(h) ==
    /\ ~panicked
    /\ store[h].made
    /\ store' = [store EXCEPT ![h] = NoStore]
    /\ ret' = Ret("Drop", h, Nil)
    /\ UNCHANGED <<dynamicSessions, tables, dbSessions, dbMessages, nIncr, panicked>>

\* ------------------------------------------------------------------ registry
\* sessions[sessionID] = s, with the session s named by its store object.
insertSession(m, sid, h) == [m EXCEPT ![sid] = h]

\* delete that removes nothing.
deleteNothing(m, sid) == m

\* delete(sessions, sessionID)
deleteSession(m, sid) == [m EXCEPT ![sid] = NoH]

\* Lock() that only waits for readers to leave, not for a writer.
CanLockBesideWriter(l) == l.r = {}

\* sessionsLock.Lock() can proceed: nobody holds the lock in either mode.
CanLock(l) == l.w = "free" /\ l.r = {}

\* RLock() that does not wait for the writer.
CanRLockBesideWriter(l) == TRUE

\* sessionsLock.RLock() can proceed: no writer holds the lock.
CanRLock(l) == l.w = "free"

Idle(t) == ~panicked /\ pc[t] = "idle"

At(t, l) == ~panicked /\ pc[t] = l

\* A result of an earlier call that the step of thread t takes back: a
\* successful registration of sid once sid is deleted, a successful
\* unregistration of sid once sid is inserted again.
Settle(t, c, op, sid) ==
    [u \in Threads |->
        IF u = t THEN c
        ELSE IF pc[u] = "idle" /\ call[u].op = op /\ call[u].sid = sid /\ call[u].err = Nil
             THEN NoCall ELSE call[u]]

\* A thread calls registerSession(s) for a session that exists.
RegCall(t, h) ==
    /\ Idle(t)
    /\ store[h].made
    /\ pc' = [pc EXCEPT ![t] = "reg_lock"]
    /\ call' = [call EXCEPT ![t] = [NoCall EXCEPT !.op = "register", !.h = h,
                                                  !.sid = store[h].sessionID]]
    /\ UNCHANGED <<sessions, sessionsLock, toSend, storeVars>>

\* registerSession: sessionsLock.Lock()
RegLock(t) ==
    /\ At(t, "reg_lock")
    /\ CanLock(sessionsLock)
    /\ sessionsLock' = [sessionsLock EXCEPT !.w = t]
    /\ pc' = [pc EXCEPT ![t] = "reg_check"]
    /\ UNCHANGED <<sessions, call, toSend, storeVars>>

\* registerSession: if _, ok := sessions[s.sessionID]; ok { return errDuplicateSessionID }
RegCheck(t) ==
    /\ At(t, "reg_check")
    /\ IF sessions[call[t].sid] # NoH
       THEN /\ call' = [call EXCEPT ![t].err = "Duplicate SessionID"]
            /\ pc' = [pc EXCEPT ![t] = "reg_unlock"]
       ELSE /\ pc' = [pc EXCEPT ![t] = "reg_insert"]
            /\ UNCHANGED call
    /\ UNCHANGED <<sessions, sessionsLock, toSend, storeVars>>

\* registerSession: sessions[s.sessionID] = s; return nil
RegInsert(t) ==
    /\ At(t, "reg_insert")
    /\ sessions' = insertSession(sessions, call[t].sid, call[t].h)
    /\ call' = Settle(t, call[t], "unregister", call[t].sid)
    /\ pc' = [pc EXCEPT ![t] = "reg_unlock"]
    /\ UNCHANGED <<sessionsLock, toSend, storeVars>>

\* the deferred sessionsLock.Unlock() of registerSession and UnregisterSession
Unlock(t) ==
    /\ \/ At(t, "reg_unlock")
       \/ At(t, "unreg_unlock")
    /\ sessionsLock' = [sessionsLock EXCEPT !.w = "free"]
    /\ pc' = [pc EXCEPT ![t] = "idle"]
    /\ UNCHANGED <<sessions, call, toSend, storeVars>>

\* A thread calls UnregisterSession(sessionID).
UnregCall(t, sid) ==
    /\ Idle(t)
    /\ pc' = [pc EXCEPT ![t] = "unreg_lock"]
    /\ call' = [call EXCEPT ![t] = [NoCall EXCEPT !.op = "unregister", !.sid = sid]]
    /\ UNCHANGED <<sessions, sessionsLock, toSend, storeVars>>

\* UnregisterSession: sessionsLock.Lock()
UnregLock(t) ==
    /\ At(t, "unreg_lock")
    /\ CanLock(sessionsLock)
    /\ sessionsLock' = [sessionsLock EXCEPT !.w = t]
    /\ pc' = [pc EXCEPT ![t] = "unreg_check"]
    /\ UNCHANGED <<sessions, call, toSend, storeVars>>

\* UnregisterSession: if s, ok := sessions[sessionID]; ok {...}; return errUnknownSession
UnregCheck(t) ==
    /\ At(t, "unreg_check")
    /\ IF sessions[call[t].sid] # NoH
       THEN /\ call' = [call EXCEPT ![t].h = sessions[call[t].sid]]
            /\ pc' = [pc EXCEPT ![t] = "unreg_close"]
       ELSE /\ call' = [call EXCEPT ![t].err = "Unknown session"]
            /\ pc' = [pc EXCEPT ![t] = "unreg_unlock"]
    /\ UNCHANGED <<sessions, sessionsLock, toSend, storeVars>>

\* UnregisterSession: err := s.store.Close(), which returns nil or panics
UnregClose(t, outcome) ==
    /\ At(t, "unreg_close")
    /\ LET h == call[t].h
           r == close(store[h], outcome)
       IN  /\ store' = [store EXCEPT ![h] = r.s]
           /\ panicked' = r.panic
           /\ ret' = Ret("Close", h, IF r.panic THEN "panic" ELSE Nil)
    /\ pc' = [pc EXCEPT ![t] = "unreg_delete"]
    /\ UNCHANGED <<sessions, sessionsLock, call, toSend,
                   dynamicSessions, tables, dbSessions, dbMessages, nIncr>>

\* UnregisterSession: delete(sessions, sessionID); return nil
UnregDelete(t) ==
    /\ At(t, "unreg_delete")
    /\ sessions' = deleteSession(sessions, call[t].sid)
    /\ call' = Settle(t, call[t], "register", call[t].sid)
    /\ pc' = [pc EXCEPT ![t] = "unreg_unlock"]
    /\ UNCHANGED <<sessionsLock, toSend, storeVars>>

\* A thread calls lookupSession(sessionID).
LookCall(t, sid) ==
    /\ Idle(t)
    /\ pc' = [pc EXCEPT ![t] = "look_rlock"]
    /\ call' = [call EXCEPT ![t] = [NoCall EXCEPT !.op = "lookup", !.sid = sid]]
    /\ UNCHANGED <<sessions, sessionsLock, toSend, storeVars>>

\* lookupSession: sessionsLock.RLock()
LookRLock(t) ==
    /\ At(t, "look_rlock")
    /\ CanRLock(sessionsLock)
    /\ sessionsLock' = [sessionsLock EXCEPT !.r = @ \cup {t}]
    /\ pc' = [pc EXCEPT ![t] = "look_read"]
    /\ UNCHANGED <<sessions, call, toSend, storeVars>>

\* sessions[sessionID] read: the session and ok, for any SessionID.
lookupIn(m, sid) == IF sid \in DOMAIN m THEN m[sid] ELSE NoH

\* lookupSession: s, ok = sessions[sessionID]
LookRead(t) ==
    /\ At(t, "look_read")
    /\ call' = [call EXCEPT ![t].h = lookupIn(sessions, call[t].sid),
                            ![t].found = (lookupIn(sessions, call[t].sid) # NoH)]
    /\ pc' = [pc EXCEPT ![t] = "look_runlock"]
    /\ UNCHANGED <<sessions, sessionsLock, toSend, storeVars>>

\* the deferred sessionsLock.RUnlock() of lookupSession; the call returns to
\* its caller, which is SendToTarget when the call is a send.
LookRUnlock(t) ==
    /\ At(t, "look_runlock")
    /\ sessionsLock' = [sessionsLock EXCEPT !.r = @ \ {t}]
    /\ pc' = [pc EXCEPT ![t] = IF call[t].op \in SendOps THEN "send_check" ELSE "idle"]
    /\ UNCHANGED <<sessions, call, toSend, storeVars>>

\* ------------------------------------------------------------------ Send
\* Longest outbound queue.
MaxQueue == 1

\* The SessionID a session name stands for: "A" has the three-field key,
\* "B" the key with both sub-IDs.
KeyOf(sid) ==
    [BeginString |-> "FIX", SenderCompID |-> "S", TargetCompID |-> "T",
     SenderSubID |-> IF sid = "B" THEN "ss" ELSE "",
     TargetSubID |-> IF sid = "B" THEN "ts" ELSE ""]

\* The name of a SessionID; "other" for one that no session has.
NameOf(key) ==
    IF \E sid \in Sessions : KeyOf(sid) = key
    THEN CHOOSE sid \in Sessions : KeyOf(sid) = key
    ELSE "other"

\* Send: GetField of BeginString, TargetCompID, SenderCompID, in this order;
\* the first one missing is the error Send returns.
getFields(hdr) ==
    IF hdr.BeginString = "" THEN "no BeginString"
    ELSE IF hdr.TargetCompID = "" THEN "no TargetCompID"
    ELSE IF hdr.SenderCompID = "" THEN "no SenderCompID"
    ELSE Nil

\* Send that keys by the sub-IDs as soon as one of them is there.
sendSessionIDEither(hdr) ==
    [BeginString |-> hdr.BeginString, SenderCompID |-> hdr.SenderCompID,
     TargetCompID |-> hdr.TargetCompID,
     SenderSubID |-> hdr.SenderSubID, TargetSubID |-> hdr.TargetSubID]

\* Send: the SessionID built from the header.
sendSessionID(hdr) ==
    IF hdr.SenderSubID # "" /\ hdr.TargetSubID # ""
    THEN [BeginString |-> hdr.BeginString, SenderCompID |-> hdr.SenderCompID,
          TargetCompID |-> hdr.TargetCompID,
          SenderSubID |-> hdr.SenderSubID, TargetSubID |-> hdr.TargetSubID]
    ELSE [BeginString |-> hdr.BeginString, SenderCompID |-> hdr.SenderCompID,
          TargetCompID |-> hdr.TargetCompID, SenderSubID |-> "", TargetSubID |-> ""]

\* SendToTarget that takes a failed lookup for nothing to send.
sendToTargetSilent(found) ==
    IF ~found THEN [err |-> Nil, next |-> "idle"]
    ELSE [err |-> Nil, next |-> "send_queue"]

\* SendToTarget after lookupSession: if !ok { return errUnknownSession }
sendToTarget(found) ==
    IF ~found THEN [err |-> "Unknown session", next |-> "idle"]
    ELSE [err |-> Nil, next |-> "send_queue"]

\* session.queueForSend(msg): the message joins the session's outbound
\* queue, or the session refuses it.
queueForSend(q, msg, outcome) ==
    IF outcome = "ok" THEN [q |-> Append(q, msg), err |-> Nil]
    ELSE [q |-> q, err |-> "send error"]

QueueOutcomes == {"ok", "err"}

\* A thread calls Send(m): with a required field missing it returns the
\* error at once, otherwise it calls SendToTarget with the SessionID it built.
SendCall(t, hdr) ==
    /\ Idle(t)
    /\ LET e == getFields(hdr)
           c == [NoCall EXCEPT !.op = "send", !.msg = hdr, !.err = e]
       IN  IF e # Nil
           THEN /\ call' = [call EXCEPT ![t] = c]
                /\ UNCHANGED pc
           ELSE /\ call' = [call EXCEPT ![t] = [c EXCEPT !.sid = NameOf(sendSessionID(hdr))]]
                /\ pc' = [pc EXCEPT ![t] = "look_rlock"]
    /\ UNCHANGED <<sessions, sessionsLock, toSend, storeVars>>

\* A thread calls SendToTarget(m, sessionID), which calls lookupSession.
SendToTargetCall(t, hdr, sid) ==
    /\ Idle(t)
    /\ call' = [call EXCEPT ![t] = [NoCall EXCEPT !.op = "sendToTarget", !.msg = hdr,
                                                  !.sid = sid]]
    /\ pc' = [pc EXCEPT ![t] = "look_rlock"]
    /\ UNCHANGED <<sessions, sessionsLock, toSend, storeVars>>

\* SendToTarget: if !ok { return errUnknownSession }
SendCheck(t) ==
    /\ At(t, "send_check")
    /\ LET r == sendToTarget(call[t].found)
       IN  /\ call' = [call EXCEPT ![t].err = r.err]
           /\ pc' = [pc EXCEPT ![t] = r.next]
    /\ UNCHANGED <<sessions, sessionsLock, toSend, storeVars>>

\* SendToTarget: return session.queueForSend(msg)
SendQueue(t, outcome) ==
    /\ At(t, "send_queue")
    /\ Len(toSend[call[t].h]) < MaxQueue
    /\ LET r == queueForSend(toSend[call[t].h], call[t].msg, outcome)
       IN  /\ toSend' = [toSend EXCEPT ![call[t].h] = r.q]
           /\ call' = [call EXCEPT ![t].err = r.err]
    /\ pc' = [pc EXCEPT ![t] = "idle"]
    /\ UNCHANGED <<sessions, sessionsLock, storeVars>>

\* ------------------------------------------------------------------ the store
\* The store object driven in the store's own specifications.
Owned == {"h1"}

CreateStep(H, T, F) == \E h \in H, sid \in Sessions, t \in T, fault \in F :
                           Create(h, sid, t, fault)

SetStep(N) ==
    \/ \E h \in Owned, next \in N, fault \in UpdateFaults :
           SetNextSenderMsgSeqNum(h, next, fault)
    \/ \E h \in Owned, next \in N, fault \in UpdateFaults :
           SetNextTargetMsgSeqNum(h, next, fault)

IncrStep ==
    \/ \E h \in Owned, fault \in UpdateFaults : IncrNextSenderMsgSeqNum(h, fault)
    \/ \E h \in Owned, fault \in UpdateFaults : IncrNextTargetMsgSeqNum(h, fault)

ResetStep(T) == \E h \in Owned, t \in T, fault \in ResetFaults : Reset(h, t, fault)

RefreshStep(T) == \E h \in Owned, t \in T, fault \in RefreshFaults : Refresh(h, t, fault)

SaveStep(P, C, F) ==
    \E h \in Owned, seqNum \in MsgSeqs, msg \in P, testCnt \in C,
       insFault \in F, cntFault \in F :
        SaveMessage(h, seqNum, msg, testCnt, insFault, cntFault)

GetStep(F) ==
    \E h \in Owned, b \in RangeArgs, e \in RangeArgs, fault \in F :
        GetMessages(h, b, e, fault)

DropStep == \E h \in Owned : Drop(h)

\* The sequence-number side of the store;
\* the clock stands still.
NextSeq ==
    /\ \/ CreateStep(Owned, {"t0"}, CreateFaults)
       \/ SetStep(0..MaxSeq)
       \/ IncrStep
       \/ ResetStep({"t0"})
       \/ RefreshStep({"t0"})
       \/ DropStep
    /\ UNCHANGED regVars

SpecSeq == Init /\ [][NextSeq]_vars

\* The message-log side of the store; the clock stands still.
NextLog ==
    /\ \/ CreateStep(Owned, {"t0"}, CreateFaults)
       \/ SaveStep(Payloads, TestCounts, BOOLEAN)
       \/ GetStep(BOOLEAN)
       \/ ResetStep({"t0"})
       \/ DropStep
    /\ UNCHANGED regVars

SpecLog == Init /\ [][NextLog]_vars

\* Reset of a store whose counters have advanced and whose log holds
\* messages; the backend fails only in Reset and only the configured
\* session is admitted.
InitStatic == Init /\ dynamicSessions # "Y"

NextReset ==
    /\ \/ CreateStep(Owned, {"t0"}, CreateFaults)
       \/ IncrStep
       \/ SaveStep({"x"}, {0}, {FALSE})
       \/ GetStep({FALSE})
       \/ ResetStep(Times)
       \/ DropStep
    /\ UNCHANGED regVars

SpecReset == InitStatic /\ [][NextReset]_vars

\* The registry: sessions are created on a backend that does not fail, and
\* the threads call registerSession, UnregisterSession and lookupSession.
NextReg ==
    \/ CreateStep(Handles, {"t0"}, {"none"}) /\ UNCHANGED regVars
    \/ \E t \in Threads, h \in Handles : RegCall(t, h)
    \/ \E t \in Threads : RegLock(t)
    \/ \E t \in Threads : RegCheck(t)
    \/ \E t \in Threads : RegInsert(t)
    \/ \E t \in Threads : Unlock(t)
    \/ \E t \in Threads, sid \in Sessions : UnregCall(t, sid)
    \/ \E t \in Threads : UnregLock(t)
    \/ \E t \in Threads : UnregCheck(t)
    \/ \E t \in Threads, outcome \in DBOutcomes : UnregClose(t, outcome)
    \/ \E t \in Threads : UnregDelete(t)
    \/ \E t \in Threads, sid \in Sessions : LookCall(t, sid)
    \/ \E t \in Threads : LookRLock(t)
    \/ \E t \in Threads : LookRead(t)
    \/ \E t \in Threads : LookRUnlock(t)

SpecReg == Init /\ [][NextReg]_vars

\* Sending: every SessionID is admitted and each session is created once, on
\* a backend that does not fail; one thread registers and unregisters them
\* while the other sends messages with Send and SendToTarget.
InitSend == Init /\ dynamicSessions = "Y"

Registrars == {"t2"}

Senders == {"t1"}

\* Headers sent: with all required fields and no sub-ID, one sub-ID or both,
\* and one that lacks a required field.
SentHeaders == {hdr \in Headers : /\ hdr.SenderCompID # "" /\ hdr.TargetCompID # ""
                                  /\ (hdr.TargetSubID # "" => hdr.SenderSubID # "")
                                  /\ (hdr.BeginString = "" => hdr.SenderSubID = "")}

\* The session object of each SessionID.
SessionOf == [h \in Handles |-> IF h = "h1" THEN "A" ELSE "B"]

NextSend ==
    \/ (\E h \in Handles : Create(h, SessionOf[h], "t0", "none")) /\ UNCHANGED regVars
    \/ \E t \in Registrars, h \in Handles : RegCall(t, h)
    \/ \E t \in Threads : RegLock(t)
    \/ \E t \in Threads : RegCheck(t)
    \/ \E t \in Threads : RegInsert(t)
    \/ \E t \in Threads : Unlock(t)
    \/ \E t \in Registrars, sid \in Sessions : UnregCall(t, sid)
    \/ \E t \in Threads : UnregLock(t)
    \/ \E t \in Threads : UnregCheck(t)
    \/ \E t \in Threads, outcome \in DBOutcomes : UnregClose(t, outcome)
    \/ \E t \in Threads : UnregDelete(t)
    \/ \E t \in Senders, hdr \in SentHeaders : SendCall(t, hdr)
    \/ \E t \in Senders, sid \in Sessions : SendToTargetCall(t, KeyOf("A"), sid)
    \/ \E t \in Threads : LookRLock(t)
    \/ \E t \in Threads : LookRead(t)
    \/ \E t \in Threads : LookRUnlock(t)
    \/ \E t \in Threads : SendCheck(t)
    \/ \E t \in Threads, outcome \in QueueOutcomes : SendQueue(t, outcome)

SpecSend == InitSend /\ [][NextSend]_vars

\* Closing: two stores of one factory and one session, on a backend that
\* does not fail, each used and closed by its owner or closed by an
\* UnregisterSession.
NextClose ==
    \/ /\ \/ \E h \in Handles : Create(h, "A", "t0", "none")
          \/ \E h \in Handles : SetNextSenderMsgSeqNum(h, MaxSeq, "none")
          \/ \E h \in Handles : IncrNextSenderMsgSeqNum(h, "none")
          \/ \E h \in Handles : SaveMessage(h, 1, "x", 0, FALSE, FALSE)
          \/ \E h \in Handles : GetMessages(h, 1, MaxMsgSeq, FALSE)
          \/ \E h \in Handles : Reset(h, "t0", "none")
          \/ \E h \in Handles : Refresh(h, "t0", "none")
          \/ \E h \in Handles, outcome \in DBOutcomes : Close(h, outcome)
          \/ \E h \in Handles : UseAfterClose(h)
       /\ UNCHANGED regVars
    \/ \E t \in Registrars, h \in Handles : RegCall(t, h)
    \/ \E t \in Threads : RegLock(t)
    \/ \E t \in Threads : RegCheck(t)
    \/ \E t \in Threads : RegInsert(t)
    \/ \E t \in Threads : Unlock(t)
    \/ \E t \in Registrars : UnregCall(t, "A")
    \/ \E t \in Threads : UnregLock(t)
    \/ \E t \in Threads : UnregCheck(t)
    \/ \E t \in Threads, outcome \in DBOutcomes : UnregClose(t, outcome)
    \/ \E t \in Threads : UnregDelete(t)

SpecClose == InitStatic /\ [][NextClose]_vars

\* ------------------------------------------------------------------ claims
\* The row of table sessions of store object h.
RowOf(h) == dbSessions[store[h].sessionID]

\* C1: in every reachable state and for every n, a Set whose durable update
\* fails returns an error and leaves the cached counter at its pre-call
\* value and the row untouched; a Set whose update succeeds leaves the row's
\* counter and the cached counter at n; the other counter stays as it was.
C1_SetWriteThrough ==
    \A h \in Handles : Usable(h) =>
        \A next \in 0..MaxSeq, fault \in UpdateFaults :
            LET sid == store[h].sessionID
                snd == setNextSenderMsgSeqNum(store[h], dbSessions, next, fault)
                tgt == setNextTargetMsgSeqNum(store[h], dbSessions, next, fault)
            IN  /\ (fault = "update") = (snd.err # Nil)
                /\ snd.err # Nil => (snd.s = store[h] /\ snd.tab = dbSessions)
                /\ snd.err = Nil =>
                      /\ snd.s = [store[h] EXCEPT !.senderMsgSeqNum = next]
                      /\ snd.tab[sid] # NoRec
                      /\ snd.tab = [dbSessions EXCEPT ![sid].outgoing_seqnum = next]
                /\ (fault = "update") = (tgt.err # Nil)
                /\ tgt.err # Nil => (tgt.s = store[h] /\ tgt.tab = dbSessions)
                /\ tgt.err = Nil =>
                      /\ tgt.s = [store[h] EXCEPT !.targetMsgSeqNum = next]
                      /\ tgt.tab[sid] # NoRec
                      /\ tgt.tab = [dbSessions EXCEPT ![sid].incoming_seqnum = next]

\* A Set has just failed on a store whose cache and row held another value.
C1_Witness ==
    /\ ret.op = "SetNextSenderMsgSeqNum"
    /\ ret.err = DbErr
    /\ store[ret.h].made
    /\ RowOf(ret.h) # NoRec
    /\ RowOf(ret.h).outgoing_seqnum = store[ret.h].senderMsgSeqNum

\* C2: an Incr whose durable write fails leaves the cached counter at its
\* pre-call value.
C2_IncrWriteThrough ==
    [][\A h \in Handles, fault \in UpdateFaults :
        /\ (IncrNextSenderMsgSeqNum(h, fault) /\ ret'.err # Nil) =>
              store'[h].senderMsgSeqNum = store[h].senderMsgSeqNum
        /\ (IncrNextTargetMsgSeqNum(h, fault) /\ ret'.err # Nil) =>
              store'[h].targetMsgSeqNum = store[h].targetMsgSeqNum
    ]_vars

\* C3: between calls, the cached sequence numbers of a store equal those of
\* the session's row.
C3_CacheMirrorsRow ==
    \A h \in Handles :
        store[h].made =>
            /\ RowOf(h) # NoRec
            /\ store[h].senderMsgSeqNum = RowOf(h).outgoing_seqnum
            /\ store[h].targetMsgSeqNum = RowOf(h).incoming_seqnum

\* C4: N successful IncrNextSenderMsgSeqNum calls after the row was inserted
\* leave the cache at 1 + N, and the row too, so that a store built by a
\* later Create, or a Refresh, holds 1 + N.
C4_IncrCounts ==
    \A h \in Handles :
        (store[h].made /\ nIncr[store[h].sessionID] >= 0) =>
            /\ store[h].senderMsgSeqNum = 1 + nIncr[store[h].sessionID]
            /\ RowOf(h) # NoRec
            /\ RowOf(h).outgoing_seqnum = 1 + nIncr[store[h].sessionID]

\* A new store has been created over the row of a session after at least
\* one counted Incr.
C4_Witness ==
    /\ ret.op = "Create"
    /\ ret.err = Nil
    /\ store[ret.h].made
    /\ nIncr[store[ret.h].sessionID] >= 1

\* C5: right after a successful Reset both cached sequence numbers are 1,
\* the row holds 1/1 and GetMessages returns nothing for any range.
C5_ResetClears ==
    (ret.op = "Reset" /\ ret.err = Nil) =>
        /\ store[ret.h].senderMsgSeqNum = 1
        /\ store[ret.h].targetMsgSeqNum = 1
        /\ RowOf(ret.h) # NoRec
        /\ RowOf(ret.h).outgoing_seqnum = 1
        /\ RowOf(ret.h).incoming_seqnum = 1
        /\ \A b \in RangeArgs, e \in RangeArgs :
              LET r == getMessages(store[ret.h], dbMessages, b, e, FALSE)
              IN  r.err = Nil /\ r.msgs = <<>>

\* A Reset has just succeeded.
C5_Witness ==
    /\ ret.op = "Reset"
    /\ ret.err = Nil
    /\ store[ret.h].made

\* The messages of store object h's session.
LogOf(h) == dbMessages[store[h].sessionID]

\* C6: SaveMessage of a sequence number and bytes the log already holds,
\* with the re-check count answered, returns no error and leaves exactly one
\* entry for that sequence number, holding those bytes.
C6_SecondSaveSucceeds ==
    [][\A h \in Handles, seqNum \in MsgSeqs, msg \in Payloads, testCnt \in TestCounts,
          insFault \in BOOLEAN :
        (SaveMessage(h, seqNum, msg, testCnt, insFault, FALSE) /\ LogOf(h)[seqNum] = msg) =>
            /\ ret'.err = Nil
            /\ getMessages(store[h], dbMessages', seqNum, seqNum, FALSE).msgs = <<msg>>
    ]_vars

\* C7: in every reachable state and for every input, SaveMessage turns a
\* failed insert into success only when exactly one entry exists for the
\* sequence number and the count was obtained; with a failed insert and no
\* such count it returns the insert's error and leaves the log unchanged;
\* and it reports success in no other case than a completed insert.
C7_SuppressOnlyDuplicate ==
    \A h \in Handles : Usable(h) =>
        \A seqNum \in MsgSeqs, msg \in Payloads, testCnt \in TestCounts,
           insFault \in BOOLEAN, cntFault \in BOOLEAN :
            LET r == saveMessage(store[h], dbMessages, seqNum, msg,
                                 testCnt, insFault, cntFault)
                entries == {q \in {seqNum} : LogOf(h)[q] # NoMsg}
                insertFails == testCnt <= 1 /\ (insFault \/ entries # {})
                counted == ~cntFault /\ Cardinality(entries) = 1
            IN  /\ (insertFails /\ ~counted) => (r.err = DbErr /\ r.msgs = dbMessages)
                /\ r.err = Nil =>
                      \/ /\ testCnt <= 1 /\ ~insFault /\ entries = {}
                         /\ r.msgs = [dbMessages EXCEPT
                                         ![store[h].sessionID][seqNum] = msg]
                      \/ /\ insertFails /\ counted
                         /\ r.msgs = dbMessages
                /\ testCnt > 1 => (r.err # Nil /\ r.msgs = dbMessages)

\* SaveMessage has just returned the insert's error while the log lacks an
\* entry.
C7_Witness ==
    /\ ret.op = "SaveMessage"
    /\ ret.err = DbErr
    /\ store[ret.h].made
    /\ \E q \in MsgSeqs : LogOf(ret.h)[q] = NoMsg

\* out is the payloads of the entries of session sid with b <= s <= e, in
\* strictly ascending order of s.
IsAnswer(out, sid, b, e) ==
    \E f \in [1..Len(out) -> MsgSeqs] :
        /\ \A i, j \in 1..Len(out) : i < j => f[i] < f[j]
        /\ {f[i] : i \in 1..Len(out)} =
               {q \in MsgSeqs : dbMessages[sid][q] # NoMsg /\ b <= q /\ q <= e}
        /\ \A i \in 1..Len(out) : out[i] = dbMessages[sid][f[i]]

\* C8: in every reachable state and for every b and e, GetMessages(b, e)
\* returns the payloads of the session's entries with b <= s <= e in
\* strictly ascending order of s, and the empty sequence, without error,
\* when b > e or no entry is in the range.
C8_GetMessagesRange ==
    \A h \in Handles : Usable(h) =>
        \A b \in RangeArgs, e \in RangeArgs :
            LET r == getMessages(store[h], dbMessages, b, e, FALSE)
            IN  /\ r.err = Nil
                /\ IsAnswer(r.msgs, store[h].sessionID, b, e)
                /\ (b > e \/ \A q \in MsgSeqs : LogOf(h)[q] # NoMsg => (q < b \/ q > e)) =>
                      r.msgs = <<>>

\* GetMessages has just returned two entries with different payloads.
C8_Witness ==
    /\ ret.op = "GetMessages"
    /\ ret.err = Nil
    /\ Len(ret.msgs) = 2
    /\ ret.msgs[1] # ret.msgs[2]

\* Thread t has registered its session and the entry has not been deleted
\* since.
Won(t) ==
    /\ call[t].op = "register"
    /\ call[t].err = Nil
    /\ pc[t] \in {"reg_unlock", "idle"}

\* Thread t has returned from a successful UnregisterSession(sid) and no
\* registerSession of sid has succeeded since.
Unregistered(t, sid) ==
    /\ call[t].op = "unregister"
    /\ call[t].sid = sid
    /\ call[t].err = Nil
    /\ pc[t] = "idle"

\* C9: of the registerSession calls made for one SessionID while it is
\* absent exactly one succeeds and the others return the duplicate error;
\* the map holds the session of the call that succeeded; an entry changes
\* only from absent to the registering call's session or, by
\* UnregisterSession, to absent.
C9_RegisterAtomic ==
    /\ [](\A t \in Threads :
            /\ Won(t) => sessions[call[t].sid] = call[t].h
            /\ \A u \in Threads \ {t} : ~(Won(t) /\ Won(u) /\ call[t].sid = call[u].sid)
            /\ (call[t].op = "register" /\ pc[t] \in {"reg_unlock", "idle"}) =>
                  call[t].err \in {Nil, "Duplicate SessionID"})
    /\ [][\A sid \in Sessions :
            sessions'[sid] # sessions[sid] =>
                \/ /\ sessions[sid] = NoH
                   /\ \E t \in Threads :
                         /\ pc[t] = "reg_insert" /\ pc'[t] = "reg_unlock"
                         /\ call[t].sid = sid
                         /\ sessions'[sid] = call[t].h
                         /\ Won(t)'
                \/ /\ sessions'[sid] = NoH
                   /\ \E t \in Threads :
                         /\ pc[t] = "unreg_delete" /\ pc'[t] = "unreg_unlock"
                         /\ call[t].sid = sid
      ]_vars

\* One thread has registered a session and another, which called
\* registerSession for the same SessionID with another session while the
\* first was still in its call, got the duplicate error.
C9_Witness ==
    \E t \in Threads, u \in Threads :
        /\ Won(t) /\ pc[t] = "reg_unlock"
        /\ call[u].op = "register" /\ pc[u] = "reg_lock"
        /\ call[u].sid = call[t].sid
        /\ call[u].h # call[t].h

\* C10: UnregisterSession of an absent id returns the unknown-session error
\* and leaves the map as it was; the delete of UnregisterSession removes the
\* entry of its id and no other; and while a successful UnregisterSession of
\* id stands, the entry is absent and lookupSession(id) reports not-found.
C10_Unregister ==
    /\ [](\A t \in Threads, sid \in Sessions : Unregistered(t, sid) => sessions[sid] = NoH)
    /\ [][\A t \in Threads :
            /\ (pc[t] = "unreg_check" /\ pc'[t] # pc[t] /\ sessions[call[t].sid] = NoH) =>
                  /\ call'[t].err = "Unknown session"
                  /\ pc'[t] = "unreg_unlock"
                  /\ sessions' = sessions
            /\ (pc[t] = "unreg_unlock" /\ pc'[t] # pc[t]) =>
                  /\ sessions' = sessions
                  /\ call'[t] = call[t]
            /\ (pc[t] = "unreg_delete" /\ pc'[t] # pc[t]) =>
                  /\ call'[t].err = Nil
                  /\ sessions'[call[t].sid] = NoH
                  /\ \A sid \in Sessions \ {call[t].sid} : sessions'[sid] = sessions[sid]
            /\ (pc[t] = "look_read" /\ pc'[t] # pc[t]
                  /\ \E u \in Threads : Unregistered(u, call[t].sid)) =>
                  ~call'[t].found
      ]_vars

\* A lookupSession made after a successful UnregisterSession of the same
\* id has reported not-found, while another id is still registered.
C10_Witness ==
    \E t \in Threads, u \in Threads :
        /\ Unregistered(u, call[t].sid)
        /\ call[t].op = "lookup"
        /\ pc[t] \in {"look_runlock", "idle"}
        /\ ~call[t].found
        /\ \E sid \in Sessions : sessions[sid] # NoH

\* C11: from the close of the store to the delete of the entry an
\* UnregisterSession holds the lock alone, with no lookupSession between its
\* RLock and its RUnlock; so no lookupSession reads an entry, found, whose
\* store the UnregisterSession in progress has closed and not yet removed.
C11_NoClosedLookup ==
    /\ [](\A u \in Threads :
            pc[u] \in {"unreg_close", "unreg_delete"} =>
                /\ sessionsLock.w = u
                /\ sessionsLock.r = {}
                /\ \A t \in Threads : pc[t] \notin {"look_read", "look_runlock"})
    /\ [][\A t \in Threads :
            (pc[t] = "look_read" /\ pc'[t] # pc[t] /\ call'[t].found) =>
                /\ call'[t].h = sessions[call[t].sid]
                /\ ~\E u \in Threads :
                       /\ pc[u] = "unreg_delete"
                       /\ call[u].sid = call[t].sid
      ]_vars

\* An UnregisterSession has closed the store and not yet deleted the entry,
\* while a lookupSession of the same id waits for the read lock.
C11_Witness ==
    \E t \in Threads, u \in Threads :
        /\ pc[u] = "unreg_delete"
        /\ store[call[u].h].dbNil
        /\ sessions[call[u].sid] = call[u].h
        /\ pc[t] = "look_rlock"
        /\ call[t].sid = call[u].sid

\* Thread t takes the step that leaves statement l.
Leaves(t, l) == pc[t] = l /\ pc'[t] # l

\* C12: the SessionID Send builds has the header's BeginString, SenderCompID
\* and TargetCompID, and the header's two sub-IDs if both are there, none
\* otherwise; so the lookup of a Send whose message lacks a sub-ID, made
\* while no session has the three-field key, finds nothing, and the Send
\* returns the unknown-session error and leaves every queue as it was.
C12_SendKey ==
    /\ [](\A hdr \in Headers :
            LET k == sendSessionID(hdr)
                both == hdr.SenderSubID # "" /\ hdr.TargetSubID # ""
            IN  /\ k.BeginString = hdr.BeginString
                /\ k.SenderCompID = hdr.SenderCompID
                /\ k.TargetCompID = hdr.TargetCompID
                /\ k.SenderSubID = IF both THEN hdr.SenderSubID ELSE ""
                /\ k.TargetSubID = IF both THEN hdr.TargetSubID ELSE ""
                /\ (~both /\ getFields(hdr) = Nil) => NameOf(k) = "A")
    /\ [][\A t \in Threads :
            LET lacks == call[t].msg.SenderSubID = "" \/ call[t].msg.TargetSubID = ""
            IN  /\ (Leaves(t, "look_read") /\ call[t].op = "send" /\ lacks
                       /\ sessions["A"] = NoH) =>
                      ~call'[t].found
                /\ (Leaves(t, "send_check") /\ call[t].op = "send" /\ ~call[t].found) =>
                      /\ call'[t].err = "Unknown session"
                      /\ pc'[t] = "idle"
                      /\ toSend' = toSend
      ]_vars

\* A Send of a message with one sub-ID has returned the unknown-session
\* error while the only registered session is the one keyed with sub-IDs.
C12_Witness ==
    \E t \in Threads :
        /\ pc[t] = "idle"
        /\ call[t].op = "send"
        /\ call[t].err = "Unknown session"
        /\ call[t].msg.SenderSubID = "ss"
        /\ call[t].msg.TargetSubID = ""
        /\ sessions["A"] = NoH
        /\ sessions["B"] # NoH
        /\ \A h \in Handles : toSend[h] = <<>>

\* C13: the lookup of a SendToTarget finds the session the map holds for
\* the id, if any; with none found the call returns the unknown-session
\* error and no queue changes; with one found the message joins the queue of
\* that session alone, or is refused, and the call returns that result.  No
\* step of a Send or SendToTarget changes the map, and queues change in no
\* other step.
C13_SendToTargetFrame ==
    [][/\ \A t \in Threads :
            /\ (Leaves(t, "look_read") /\ call[t].op \in SendOps) =>
                   /\ call'[t].found = (call[t].sid \in Sessions /\ sessions[call[t].sid] # NoH)
                   /\ call'[t].found => call'[t].h = sessions[call[t].sid]
            /\ (Leaves(t, "send_check") /\ ~call[t].found) =>
                   /\ call'[t].err = "Unknown session"
                   /\ pc'[t] = "idle"
                   /\ toSend' = toSend
            /\ (Leaves(t, "send_check") /\ call[t].found) =>
                   /\ pc'[t] = "send_queue"
                   /\ toSend' = toSend
            /\ Leaves(t, "send_queue") =>
                   /\ pc'[t] = "idle"
                   /\ \A g \in Handles \ {call[t].h} : toSend'[g] = toSend[g]
                   /\ \/ /\ call'[t].err = Nil
                         /\ toSend'[call[t].h] = Append(toSend[call[t].h], call[t].msg)
                      \/ /\ call'[t].err = "send error"
                         /\ toSend'[call[t].h] = toSend[call[t].h]
            /\ (call[t].op \in SendOps /\ pc[t] # "idle" /\ pc'[t] # pc[t]) =>
                   sessions' = sessions
            /\ (Idle(t) /\ call'[t].op \in SendOps /\ call'[t] # call[t]) =>
                   /\ sessions' = sessions
                   /\ toSend' = toSend
       /\ toSend' # toSend => \E t \in Threads : Leaves(t, "send_queue")
    ]_vars

\* A SendToTarget has put its message on the queue of the session
\* registered under its id while another session is registered and its
\* queue is empty.
C13_Witness ==
    \E t \in Threads, g \in Handles :
        /\ pc[t] = "idle"
        /\ call[t].op = "sendToTarget"
        /\ call[t].found
        /\ call[t].err = Nil
        /\ toSend[call[t].h] = <<call[t].msg>>
        /\ g # call[t].h
        /\ \E sid \in Sessions : sessions[sid] = g
        /\ toSend[g] = <<>>

\* C19: a message is handed to a session's outbound queue only while the
\* session is registered under the id and its store is not closed.
C19_EnqueueWhileRegistered ==
    [][\A t \in Threads :
          Leaves(t, "send_queue") =>
              /\ sessions[call[t].sid] = call[t].h
              /\ ~store[call[t].h].dbNil
    ]_vars

\* A Create step that does not get past admission: it returns the admission
\* error and creates neither store, table nor row.
Refused(h, sid, fault) ==
    Create(h, sid, "t0", fault) =>
        /\ ret'.err = admit(sid)
        /\ store' = store
        /\ tables' = tables
        /\ dbSessions' = dbSessions

\* C14 as stated: Create fails with the unknown-session error, building no
\* store and inserting no row, exactly when the SessionID is not configured
\* and the flag is absent or false; when the SessionID is configured or the
\* flag is true, Create gets past admission.
C14_AdmissionAsStated ==
    [][\A h \in Handles, sid \in Sessions, fault \in CreateFaults :
          (ret'.op = "Create" /\ ret'.h = h /\ Create(h, sid, "t0", fault)) =>
              /\ (ret'.err = "unknown session") =
                    (sid \notin Configured /\ dynamicSessions \in {"absent", "N"})
              /\ ret'.err = "unknown session" => Refused(h, sid, fault)
              /\ (sid \in Configured \/ dynamicSessions = "Y") => ret'.err \in {Nil, DbErr}
    ]_vars

\* C14, amended: as stated when the flag is absent or holds a boolean; with
\* a flag set to a value that is no boolean, Create fails for every
\* SessionID with the setting's error, building no store and inserting no
\* row.
C14_Admission ==
    [][\A h \in Handles, sid \in Sessions, fault \in CreateFaults :
          (ret'.op = "Create" /\ ret'.h = h /\ Create(h, sid, "t0", fault)) =>
              /\ (ret'.err = "unknown session") =
                    (sid \notin Configured /\ dynamicSessions \in {"absent", "N"})
              /\ ret'.err = "unknown session" => Refused(h, sid, fault)
              /\ (dynamicSessions # "bad" /\ (sid \in Configured \/ dynamicSessions = "Y")) =>
                    ret'.err \in {Nil, DbErr}
              /\ dynamicSessions = "bad" =>
                    (ret'.err = "bad setting" /\ Refused(h, sid, fault))
    ]_vars

\* Create has just refused a SessionID that is not configured, with the
\* flag set to false, and the session has no row.
C14_Witness ==
    /\ ret.op = "Create"
    /\ ret.err = "unknown session"
    /\ dynamicSessions = "N"
    /\ ~store[ret.h].made
    /\ dbSessions["B"] = NoRec

\* populate, run on the freshly reset cache s0 of a store of session sid at
\* time t over table tab, gave pop: a row that exists is loaded and the table
\* is not written; with no row, one row is inserted for sid, holding t and
\* 1/1; a failed lookup or insert leaves the table as it was.
Populated(s0, sid, t, tab, fault, pop) ==
    /\ fault = "find" => (pop.err = DbErr /\ pop.tab = tab)
    /\ (fault # "find" /\ tab[sid] # NoRec) =>
          /\ pop.err = Nil
          /\ pop.tab = tab
          /\ pop.s.creationTime = tab[sid].creation_time
          /\ pop.s.senderMsgSeqNum = tab[sid].outgoing_seqnum
          /\ pop.s.targetMsgSeqNum = tab[sid].incoming_seqnum
    /\ (fault = "insert" /\ tab[sid] = NoRec) => (pop.err = DbErr /\ pop.tab = tab)
    /\ (fault \notin {"find", "insert"} /\ tab[sid] = NoRec) =>
          /\ pop.err = Nil
          /\ pop.tab = [tab EXCEPT ![sid] = Rec(t, 1, 1)]
          /\ pop.s = s0

\* C15: in every reachable state, the populate step of a Create for any
\* SessionID and of a Refresh inserts a row, seeded with the time of the call
\* and 1/1, only for a SessionID that has none, and otherwise loads the row
\* without writing; so the table never gets a second row for a SessionID.
C15_PopulateInsertsOnce ==
    /\ \A sid \in Sessions, t \in Times, fault \in CreateFaults :
          LET s0 == cacheReset([NoStore EXCEPT !.sessionID = sid], t)
          IN  Populated(s0, sid, t, dbSessions, fault, populateCache(s0, dbSessions, fault))
    /\ \A h \in Handles : Usable(h) =>
          \A t \in Times, fault \in RefreshFaults :
              Populated(cacheReset(store[h], t), store[h].sessionID, t, dbSessions, fault,
                        refresh(store[h], dbSessions, t, fault))

\* A Create has built a store over a row that an earlier store of the
\* session left with an advanced target counter.
C15_Witness ==
    /\ ret.op = "Create"
    /\ ret.err = Nil
    /\ store[ret.h].made
    /\ store[ret.h].targetMsgSeqNum = 2
    /\ RowOf(ret.h) # NoRec
    /\ RowOf(ret.h).incoming_seqnum = 2

\* Rows an external writer may leave for a session, and no row.
ExternalRows == {NoRec} \cup {Rec(ct, in, out) : ct \in Times, in \in 0..MaxSeq, out \in 0..MaxSeq}

\* C18: whatever the cache of a store holds and whatever row, or none, the
\* table holds for its session, a Refresh on which no call fails leaves the
\* cache at the row's creation time and sequence numbers and the table
\* unwritten; with no row it inserts one holding 1/1 and the cache holds 1/1.
C18_RefreshReloads ==
    \A h \in Handles : Usable(h) =>
        \A t \in Times, row \in ExternalRows :
            LET sid == store[h].sessionID
                tab == [dbSessions EXCEPT ![sid] = row]
                r == refresh(store[h], tab, t, "none")
            IN  /\ r.err = Nil
                /\ r.s.sessionID = sid
                /\ row # NoRec =>
                      /\ r.tab = tab
                      /\ r.s.creationTime = row.creation_time
                      /\ r.s.senderMsgSeqNum = row.outgoing_seqnum
                      /\ r.s.targetMsgSeqNum = row.incoming_seqnum
                /\ row = NoRec =>
                      /\ r.tab = [tab EXCEPT ![sid] = Rec(t, 1, 1)]
                      /\ r.s.senderMsgSeqNum = 1
                      /\ r.s.targetMsgSeqNum = 1
                      /\ r.s.creationTime = t

\* A Refresh has just succeeded and the cache holds the advanced counters
\* of the row.
C18_Witness ==
    /\ ret.op = "Refresh"
    /\ ret.err = Nil
    /\ store[ret.h].made
    /\ RowOf(ret.h) # NoRec
    /\ RowOf(ret.h).outgoing_seqnum = 2
    /\ store[ret.h].senderMsgSeqNum = 2

\* C16: both cached sequence numbers of a store, and those of its row, are
\* at least 1.
C16_SeqNumsPositive ==
    \A h \in Handles :
        store[h].made =>
            /\ store[h].senderMsgSeqNum >= 1
            /\ store[h].targetMsgSeqNum >= 1
            /\ RowOf(h) # NoRec =>
                  /\ RowOf(h).outgoing_seqnum >= 1
                  /\ RowOf(h).incoming_seqnum >= 1

\* C20: in every reachable state and for every input, a SaveMessage that
\* returns no error leaves a log from which GetMessages(seqNum, seqNum)
\* returns exactly the payload of the call.
C20_SavedPayloadRetrievable ==
    \A h \in Handles : Usable(h) =>
        \A seqNum \in MsgSeqs, msg \in Payloads, testCnt \in TestCounts,
           insFault \in BOOLEAN, cntFault \in BOOLEAN :
            LET r == saveMessage(store[h], dbMessages, seqNum, msg,
                                 testCnt, insFault, cntFault)
            IN  r.err = Nil =>
                    getMessages(store[h], r.msgs, seqNum, seqNum, FALSE).msgs = <<msg>>

\* Store object a is closed in this step: its Close returns.
Closes(a) == store[a].made /\ ~store[a].dbNil /\ store'[a].dbNil

====
